---- MODULE Spec2Model ----
(***************************************************************************)
(* Model of the extraction pipeline (backend/data_extractor.py), of the    *)
(* meta-study clustering (backend/meta_study.py) and of the extraction     *)
(* endpoints (backend/extract_api.py, backend/main.py).                    *)
(*                                                                         *)
(* A Python str is a sequence of one-character strings.  Spec is one call  *)
(* of extract_and_convert: one action per loop iteration of                *)
(* extract_from_pdf, then the export and the returned dictionary.          *)
(* SpecMeta is one call of meta_study_from_matrix, one action per          *)
(* statement group.  SpecApi is the application serving requests, one      *)
(* action per handler, the upload handler split at its await.              *)
(***************************************************************************)
EXTENDS Integers, Sequences, FiniteSets, TLC

VARIABLES elements, i, extracted_data, pc, error,
          file_path, sheets, result,
          matrix_json, n_clusters, terms, X, labels, cluster_centers,
          top_terms, clusters, matrix,
          extraction_files, extraction_outputs, uploads, disk, tmp_count,
          response

extract_vars == <<elements, i, extracted_data>>

pipeline_vars == <<file_path, sheets, result>>

meta_vars == <<matrix_json, n_clusters, terms, X, labels, cluster_centers,
               top_terms, clusters, matrix>>

api_vars == <<extraction_files, extraction_outputs, uploads, disk, tmp_count,
              response>>

vars == <<extract_vars, pc, error, pipeline_vars, meta_vars, api_vars>>

---------------------------------------------------------------------------
(* Bounds of the model.                                                    *)

MaxElems == 2
MaxTextLen == 4
MaxTableLen == 5
MaxDocs == 2
MaxSummaryLen == 2
MaxClusters == 3
MaxWeight == 2

---------------------------------------------------------------------------
(* Python str primitives.                                                  *)

Whitespace == {" ", "\n", "\t"}

Min(a, b) == IF a <= b THEN a ELSE b

Max(a, b) == IF a >= b THEN a ELSE b

RECURSIVE lstrip(_)
lstrip(s) ==
  IF s = <<>> THEN <<>>
  ELSE IF Head(s) \in Whitespace THEN lstrip(Tail(s)) ELSE s

RECURSIVE rstrip(_)
rstrip(s) ==
  IF s = <<>> THEN <<>>
  ELSE IF s[Len(s)] \in Whitespace THEN rstrip(SubSeq(s, 1, Len(s) - 1)) ELSE s

strip(s) == rstrip(lstrip(s))

\* s.split(sep) for a one-character sep: always at least one piece.
RECURSIVE split(_, _)
split(s, sep) ==
  IF s = <<>> THEN << <<>> >>
  ELSE LET rest == split(Tail(s), sep)
       IN  IF Head(s) = sep
           THEN << <<>> >> \o rest
           ELSE << <<Head(s)>> \o Head(rest) >> \o Tail(rest)

\* s.split() without argument: pieces between whitespace runs, none empty.
RECURSIVE split_ws(_)
split_ws(s) ==
  LET t == lstrip(s)
  IN  IF t = <<>> THEN <<>>
      ELSE LET n == CHOOSE k \in 1..Len(t) :
                      /\ \A j \in 1..k : t[j] \notin Whitespace
                      /\ (k = Len(t) \/ t[k + 1] \in Whitespace)
           IN  <<SubSeq(t, 1, n)>> \o split_ws(SubSeq(t, n + 1, Len(t)))

\* sep.join(parts)
RECURSIVE join(_, _)
join(sep, parts) ==
  IF parts = <<>> THEN <<>>
  ELSE IF Len(parts) = 1 THEN parts[1]
  ELSE parts[1] \o sep \o join(sep, Tail(parts))

---------------------------------------------------------------------------
(* DataExtractor helpers.                                                  *)

\* Optional[List[List[str]]]: None, or a list of rows.
None == [is_none |-> TRUE, value |-> <<>>]

Some(v) == [is_none |-> FALSE, value |-> v]

\* Truth value of an optional list: None and [] are both false.
truthy(opt) == ~opt.is_none /\ opt.value # <<>>

\* [cell.strip() for cell in row.split('|') if cell.strip()]
RECURSIVE stripped_cells(_)
stripped_cells(pieces) ==
  IF pieces = <<>> THEN <<>>
  ELSE LET cell == strip(Head(pieces))
       IN  (IF cell # <<>> THEN <<cell>> ELSE <<>>) \o stripped_cells(Tail(pieces))

cells_of(row) == stripped_cells(split(row, "|"))

\* Variant of parse_rows without the "if cells" test.
RECURSIVE parse_rows_keep_empty(_)
parse_rows_keep_empty(rows) ==
  IF rows = <<>> THEN <<>>
  ELSE LET row == Head(rows)
       IN  (IF strip(row) # <<>> THEN <<cells_of(row)>> ELSE <<>>)
             \o parse_rows_keep_empty(Tail(rows))

\* The loop over rows: a row is appended when it is not blank and has cells.
RECURSIVE parse_rows(_)
parse_rows(rows) ==
  IF rows = <<>> THEN <<>>
  ELSE LET row == Head(rows)
           cells == cells_of(row)
       IN  (IF strip(row) # <<>> /\ cells # <<>> THEN <<cells>> ELSE <<>>)
             \o parse_rows(Tail(rows))

_extract_table_data(table_text) ==
  LET rows == split(strip(table_text), "\n")
      table_data == parse_rows(rows)
  IN  IF table_data # <<>> THEN Some(table_data) ELSE None

\* Variant of _preprocess_text that only strips the ends.
_preprocess_text_strip_only(text) ==
  LET cleaned_text == strip(text)
  IN  cleaned_text

_preprocess_text(text) ==
  LET cleaned_text == strip(text)
  IN  join(<<" ">>, split_ws(cleaned_text))

---------------------------------------------------------------------------
(* Upstream element classes (unstructured.documents.elements).             *)

Tags == {"Table", "Text", "Title", "ListItem", "NarrativeText", "CheckBox"}

\* Base class of each element class; Element is the root.
Base(tag) ==
  CASE tag = "Table" -> "Text"
    [] tag = "Title" -> "Text"
    [] tag = "ListItem" -> "Text"
    [] tag = "NarrativeText" -> "Text"
    [] tag = "Text" -> "Element"
    [] tag = "CheckBox" -> "Element"
    [] OTHER -> "Element"

\* isinstance(element, cls) for a single class.
isinstance(tag, cls) == tag = cls \/ Base(tag) = cls

\* getattr(element, 'metadata', {}): absent, a mapping, or an object
\* without a get method.
MetaKinds == {"absent", "dict", "malformed"}

Metadata ==
  { [kind |-> "absent", page_number |-> 0],
    [kind |-> "dict", page_number |-> 2],
    [kind |-> "malformed", page_number |-> 0] }

page_raises(element) == element.metadata.kind = "malformed"

\* getattr(element, 'metadata', {}).get('page_number', 1)
page_of(element) ==
  IF element.metadata.kind = "dict" THEN element.metadata.page_number ELSE 1

Chars == {"a", " ", "\n"}

\* The content length above which a Content cell is shortened.
TruncateAt == 500

TableChars == {"a", "b", " ", "|", "\n"}

RECURSIVE StringsUpTo(_, _)
StringsUpTo(alphabet, n) ==
  IF n = 0 THEN {<<>>}
  ELSE LET shorter == StringsUpTo(alphabet, n - 1)
       IN  shorter \cup {<<c>> \o s : c \in alphabet, s \in {t \in shorter : Len(t) = n - 1}}

RECURSIVE SeqsUpTo(_, _)
SeqsUpTo(S, n) ==
  IF n = 0 THEN {<<>>}
  ELSE LET shorter == SeqsUpTo(S, n - 1)
       IN  shorter \cup {<<x>> \o s : x \in S, s \in {t \in shorter : Len(t) = n - 1}}

\* Elements with a one-character text: a letter or a blank.
ShortElements ==
  [tag : Tags, text : {<<"a">>, <<" ">>},
   metadata : {m \in Metadata : m.kind # "dict"}]

\* Elements of any class with a text up to MaxTextLen.
Elements == [tag : Tags, text : StringsUpTo(Chars, MaxTextLen), metadata : Metadata]

\* Tables with a text up to MaxTableLen.
TableElements ==
  [tag : {"Table"}, text : StringsUpTo(TableChars, MaxTableLen),
   metadata : {m \in Metadata : m.kind = "dict"}]

\* Text elements with a text around the length at which the text summary
\* sheet shortens a content.
LongElements ==
  [tag : {"Text"},
   text : { [j \in 1..n |-> "a"] : n \in (TruncateAt - 1)..(TruncateAt + MaxTextLen) },
   metadata : {m \in Metadata : m.kind = "dict"}]

\* The element sequences handed over by partition_pdf: sequences of short
\* elements, and single elements with a longer text.
Inputs ==
  SeqsUpTo(ShortElements, MaxElems)
    \cup { <<e>> : e \in Elements \cup TableElements \cup LongElements }

---------------------------------------------------------------------------
(* DataExtractor.extract_from_pdf.                                         *)

\* The pieces of a split that are not empty.
RECURSIVE nonempty(_)
nonempty(pieces) ==
  IF pieces = <<>> THEN <<>>
  ELSE (IF Head(pieces) # <<>> THEN <<Head(pieces)>> ELSE <<>>)
         \o nonempty(Tail(pieces))

\* Variant of path_name keeping the directories.
path_name_whole(path) == path

\* Path(path).name: the last component of the path.
path_name(path) ==
  LET parts == nonempty(split(path, "/"))
  IN  IF parts = <<>> THEN <<>> ELSE parts[Len(parts)]

\* The file_path arguments: absolute, relative and bare paths.
FilePaths ==
  { <<"/", "t", "/", "a", ".", "p", "d", "f">>,
    <<"t", "/", "u", "/", "a", ".", "p", "d", "f">>,
    <<"b", ".", "p", "d", "f">> }

\* The calls of the pipeline: any path with at most one short element, and
\* one path with every element sequence.
Calls ==
  { [file_path |-> p, elements |-> es] :
      p \in FilePaths, es \in SeqsUpTo(ShortElements, 1) }
    \cup { [file_path |-> <<"/", "t", "/", "a", ".", "p", "d", "f">>,
            elements |-> es] : es \in Inputs }

EmptyData ==
  [tables |-> <<>>, text_sections |-> <<>>, charts |-> <<>>,
   metadata |-> [filename |-> <<>>, total_elements |-> 0]]

\* f"table_{i}" / f"text_{i}"
make_id(prefix, n) == <<prefix, n>>

\* Variant of new_table numbering the ids from 1.
new_table_one_based(idx, element, table_data) ==
  [id |-> make_id("table", idx + 1),
   data |-> table_data,
   page |-> page_of(element)]

\* The dictionary appended to extracted_data["tables"] for element idx.
new_table(idx, element, table_data) ==
  [id |-> make_id("table", idx),
   data |-> table_data,
   page |-> page_of(element)]

\* Variant of new_text_section storing the text as it was read.
new_text_section_raw(idx, element, text_content) ==
  [id |-> make_id("text", idx),
   content |-> text_content,
   type |-> element.tag,
   page |-> page_of(element)]

\* The dictionary appended to extracted_data["text_sections"] for element idx.
new_text_section(idx, element, text_content) ==
  [id |-> make_id("text", idx),
   content |-> _preprocess_text(text_content),
   type |-> element.tag,
   page |-> page_of(element)]

\* No request has been answered yet.
NoResponse ==
  [endpoint |-> "none", status |-> 0, file_id |-> <<>>, filename |-> <<>>,
   processed |-> FALSE, excel_file |-> None]

\* No pipeline call is in progress.
PipelineIdle ==
  /\ file_path = <<>>
  /\ sheets = <<>>
  /\ result = None

\* No meta-study call is in progress.
MetaIdle ==
  /\ matrix_json = <<>>
  /\ n_clusters = 0
  /\ terms = <<>>
  /\ X = <<>>
  /\ labels = <<>>
  /\ cluster_centers = <<>>
  /\ top_terms = <<>>
  /\ clusters = <<>>
  /\ matrix = <<>>

\* The registries of a freshly started application.
ApiIdle ==
  /\ extraction_files = <<>>
  /\ extraction_outputs = <<>>
  /\ uploads = <<>>
  /\ disk = <<>>
  /\ tmp_count = 0
  /\ response = NoResponse

Init ==
  /\ \E call \in Calls :
       /\ elements = call.elements
       /\ file_path = call.file_path
  /\ i = 0
  /\ extracted_data = EmptyData
  /\ pc = "start"
  /\ error = "none"
  /\ sheets = <<>>
  /\ result = None
  /\ MetaIdle
  /\ ApiIdle

\* partition_pdf returns the elements; the result dictionary is created.
Partition ==
  /\ pc = "start"
  /\ extracted_data' =
       [EmptyData EXCEPT !.metadata = [filename |-> path_name(file_path),
                                       total_elements |-> Len(elements)]]
  /\ i' = 0
  /\ pc' = "loop"
  /\ UNCHANGED <<elements, error, meta_vars, pipeline_vars, api_vars>>

\* partition_pdf raises: logged and re-raised by the outer handler.
PartitionFails ==
  /\ pc = "start"
  /\ pc' = "raised"
  /\ error' = "parse"
  /\ UNCHANGED <<elements, i, extracted_data, meta_vars, pipeline_vars, api_vars>>

\* One iteration of the loop on a Table element.
ProcessTable ==
  /\ pc = "loop"
  /\ i < Len(elements)
  /\ LET element == elements[i + 1]
         table_data == _extract_table_data(element.text)
     IN  /\ isinstance(element.tag, "Table")
         /\ IF ~truthy(table_data)
            THEN /\ i' = i + 1
                 /\ UNCHANGED <<extracted_data, pc, error>>
            ELSE IF page_raises(element)
            THEN /\ pc' = "raised"
                 /\ error' = "element"
                 /\ UNCHANGED <<i, extracted_data>>
            ELSE /\ extracted_data' =
                      [extracted_data EXCEPT !.tables =
                         Append(@, new_table(i, element, table_data.value))]
                 /\ i' = i + 1
                 /\ UNCHANGED <<pc, error>>
  /\ UNCHANGED <<elements, meta_vars, pipeline_vars, api_vars>>

\* One iteration of the loop on a Text, Title or ListItem instance.
ProcessText ==
  /\ pc = "loop"
  /\ i < Len(elements)
  /\ LET element == elements[i + 1]
         text_content == element.text
     IN  /\ ~isinstance(element.tag, "Table")
         /\ \/ isinstance(element.tag, "Text")
            \/ isinstance(element.tag, "Title")
            \/ isinstance(element.tag, "ListItem")
         /\ IF strip(text_content) = <<>>
            THEN /\ i' = i + 1
                 /\ UNCHANGED <<extracted_data, pc, error>>
            ELSE IF page_raises(element)
            THEN /\ pc' = "raised"
                 /\ error' = "element"
                 /\ UNCHANGED <<i, extracted_data>>
            ELSE /\ extracted_data' =
                      [extracted_data EXCEPT !.text_sections =
                         Append(@, new_text_section(i, element, text_content))]
                 /\ i' = i + 1
                 /\ UNCHANGED <<pc, error>>
  /\ UNCHANGED <<elements, meta_vars, pipeline_vars, api_vars>>

\* One iteration of the loop on an element matching neither branch.
IgnoreElement ==
  /\ pc = "loop"
  /\ i < Len(elements)
  /\ LET element == elements[i + 1]
     IN  /\ ~isinstance(element.tag, "Table")
         /\ ~isinstance(element.tag, "Text")
         /\ ~isinstance(element.tag, "Title")
         /\ ~isinstance(element.tag, "ListItem")
  /\ i' = i + 1
  /\ UNCHANGED <<elements, extracted_data, pc, error, meta_vars, pipeline_vars, api_vars>>

\* The loop is exhausted: return extracted_data.
Return ==
  /\ pc = "loop"
  /\ i = Len(elements)
  /\ pc' = "returned"
  /\ UNCHANGED <<elements, i, extracted_data, error, meta_vars, pipeline_vars, api_vars>>

---------------------------------------------------------------------------
(* DataExtractor.convert_to_excel and DataExtractor.extract_and_convert.   *)

\* The output_path argument of extract_and_convert.
OutputPath == <<"/", "o", "/", "x", ".", "x", "l", "s", "x">>

\* extract_charts_with_ocr returns an empty list.
extract_charts_with_ocr == <<>>

Ellipsis == <<".", ".", ".">>

\* Variant of cell_content shortening without the marker.
cell_content_unmarked(content) ==
  IF Len(content) > TruncateAt THEN SubSeq(content, 1, TruncateAt) ELSE content

\* content[:500] + "..." if len(content) > 500 else content
cell_content(content) ==
  IF Len(content) > TruncateAt
  THEN SubSeq(content, 1, TruncateAt) \o Ellipsis
  ELSE content

\* One row of the text summary frame.
text_row(text_section) ==
  [ID |-> text_section.id,
   Type |-> text_section.type,
   Page |-> text_section.page,
   Content |-> cell_content(text_section.content)]

\* The longest row of a list of rows.
RECURSIVE width(_)
width(rows) ==
  IF rows = <<>> THEN 0 ELSE Max(Len(Head(rows)), width(Tail(rows)))

\* pd.DataFrame(data[1:], columns=data[0]) rejects rows whose width is not
\* the number of columns; without rows the frame is empty.
frame_raises(data) == Len(data) > 1 /\ width(Tail(data)) # Len(data[1])

\* A cell missing from a short row (None); no extracted cell is empty.
NoneCell == <<>>

\* A short row is filled up to the width of the frame.
padded(row, n) == row \o [j \in 1..(n - Len(row)) |-> NoneCell]

\* The sheet written for the table at 0-based position k.
table_sheet(k, table) ==
  [name |-> make_id("Table", k + 1),
   columns |-> table.data[1],
   rows |-> [r \in 1..(Len(table.data) - 1) |->
               padded(table.data[r + 1], Len(table.data[1]))]]

\* The loop over enumerate(tables) from position k on: it ends at the first
\* table whose frame is rejected.
RECURSIVE table_sheets(_, _)
table_sheets(table_list, k) ==
  IF k >= Len(table_list) THEN <<>>
  ELSE IF table_list[k + 1].data = <<>> THEN table_sheets(table_list, k + 1)
  ELSE IF frame_raises(table_list[k + 1].data) THEN <<>>
  ELSE <<table_sheet(k, table_list[k + 1])>> \o table_sheets(table_list, k + 1)

\* Some table's frame is rejected.
tables_raise(table_list) ==
  \E k \in 1..Len(table_list) :
    table_list[k].data # <<>> /\ frame_raises(table_list[k].data)

\* The summary sheet, written only when there are text sections.
text_sheet(sections) ==
  IF sections # <<>>
  THEN << [name |-> <<"Text_Sections">>,
           columns |-> <<"ID", "Type", "Page", "Content">>,
           rows |-> [j \in 1..Len(sections) |-> text_row(sections[j])]] >>
  ELSE <<>>

\* The metadata sheet: one row holding the metadata dictionary.
metadata_sheet(metadata) ==
  [name |-> <<"Metadata">>,
   columns |-> <<"filename", "total_elements">>,
   rows |-> <<metadata>>]

\* The sheets of a workbook written without error.
workbook(data) ==
  table_sheets(data.tables, 0) \o text_sheet(data.text_sections)
    \o <<metadata_sheet(data.metadata)>>

\* Variant of failure_result handing out the document built so far.
failure_result_partial(err) ==
  [success |-> FALSE, error |-> err, excel_file |-> None,
   extracted_data |-> Some(extracted_data)]

\* The dictionary returned by the except branch of extract_and_convert.
failure_result(err) ==
  [success |-> FALSE, error |-> err, excel_file |-> None,
   extracted_data |-> None]

\* The dictionary returned at the end of the try block.
success_result(data, path) ==
  [success |-> TRUE, excel_file |-> Some(path), extracted_data |-> Some(data),
   summary |-> [tables_found |-> Len(data.tables),
                text_sections_found |-> Len(data.text_sections),
                charts_found |-> Len(data.charts)]]

\* charts = extract_charts_with_ocr(...); convert_to_excel(...): the
\* workbook is written sheet by sheet; opening, writing or saving the file
\* can fail, and so can the frame of a table.
ConvertToExcel ==
  /\ pc = "returned"
  /\ extracted_data' = [extracted_data EXCEPT !.charts = extract_charts_with_ocr]
  /\ \E io_error \in BOOLEAN :
       IF io_error
       THEN /\ sheets' = <<>>
            /\ pc' = "export_raised"
            /\ error' = "export"
       ELSE IF tables_raise(extracted_data.tables)
       THEN /\ sheets' = table_sheets(extracted_data.tables, 0)
            /\ pc' = "export_raised"
            /\ error' = "export"
       ELSE /\ sheets' = workbook(extracted_data')
            /\ pc' = "converted"
            /\ UNCHANGED error
  /\ UNCHANGED <<elements, i, file_path, result, meta_vars, api_vars>>

\* The return statement of the try block.
ReturnSuccess ==
  /\ pc = "converted"
  /\ result' = Some(success_result(extracted_data, OutputPath))
  /\ pc' = "done"
  /\ UNCHANGED <<extract_vars, error, file_path, sheets, meta_vars, api_vars>>

\* The except branch: an exception of extract_from_pdf or convert_to_excel.
ReturnFailure ==
  /\ pc \in {"raised", "export_raised"}
  /\ result' = Some(failure_result(error))
  /\ pc' = "done"
  /\ UNCHANGED <<extract_vars, error, file_path, sheets, meta_vars, api_vars>>

Next ==
  \/ Partition
  \/ PartitionFails
  \/ ProcessTable
  \/ ProcessText
  \/ IgnoreElement
  \/ Return
  \/ ConvertToExcel
  \/ ReturnSuccess
  \/ ReturnFailure

Spec == Init /\ [][Next]_vars

---------------------------------------------------------------------------
(* meta_study_from_matrix: inputs.                                         *)

\* Tokens in the vectorizer's alphabetical vocabulary order.
WordOrder == <<"ai", "growing", "healthcare", "ml", "rapidly", "the", "used">>

\* stop_words='english'
StopWords == {"the"}

ShortWords == {"ai", "ml", "the"}

Filenames == {"r1", "r2"}

\* A summary is the sequence of its word tokens.
LongSummary == <<"ai", "growing", "healthcare", "ml", "rapidly", "used">>

\* Records with a one-word summary.
ShortRecords == [filename : Filenames, summary : {<<w>> : w \in ShortWords}]

\* Records with a summary of up to MaxSummaryLen words.
Records == [filename : {"r1"}, summary : SeqsUpTo(ShortWords, MaxSummaryLen)]

\* The corpora: lists of records with one-word summaries, single records
\* with a longer summary, and one document whose summary has more distinct
\* terms than are reported.
Corpora ==
  SeqsUpTo(ShortRecords, MaxDocs)
    \cup { <<r>> : r \in Records }
    \cup { <<[filename |-> "r1", summary |-> LongSummary]>> }

RECURSIVE SumOver(_, _)
SumOver(S, f) ==
  IF S = {} THEN 0
  ELSE LET x == CHOOSE y \in S : TRUE
       IN  f[x] + SumOver(S \ {x}, f)

\* The analyzer of TfidfVectorizer: tokens of a summary without stop words.
NotStopWord(w) == w \notin StopWords

tokens(summary) == SelectSeq(summary, NotStopWord)

\* tfidf.get_feature_names_out(): distinct tokens of the corpus, sorted.
vocabulary(corpus) ==
  LET InCorpus(w) ==
        \E d \in 1..Len(corpus) :
          \E j \in 1..Len(tokens(corpus[d].summary)) : tokens(corpus[d].summary)[j] = w
  IN  SelectSeq(WordOrder, InCorpus)

\* Term frequency of w in a summary.
tf(summary, w) == Cardinality({j \in 1..Len(tokens(summary)) : tokens(summary)[j] = w})

\* The term counts of document d over the vocabulary.
tf_row(corpus, vocab, d) == [t \in 1..Len(vocab) |-> tf(corpus[d].summary, vocab[t])]

\* The matrices fit_transform can return: the row of a document depends on
\* its term counts only, and a weight is positive exactly for its terms.
tfidf_matrices(corpus, vocab) ==
  LET counts == {tf_row(corpus, vocab, d) : d \in 1..Len(corpus)}
  IN  { [d \in 1..Len(corpus) |->
           [t \in 1..Len(vocab) |->
              IF tf_row(corpus, vocab, d)[t] > 0
              THEN w[tf_row(corpus, vocab, d)][t] ELSE 0]] :
        w \in [counts -> [1..Len(vocab) -> 1..MaxWeight]] }

---------------------------------------------------------------------------
(* meta_study_from_matrix: steps.                                          *)

\* center.argsort()[-5:][::-1] keeps this many indices.
TopN == 5

InitMeta ==
  /\ elements = <<>>
  /\ i = 0
  /\ extracted_data = EmptyData
  /\ pc = "m_start"
  /\ error = "none"
  /\ PipelineIdle
  /\ ApiIdle
  /\ matrix_json \in Corpora
  /\ n_clusters \in 1..MaxClusters
  /\ terms = <<>>
  /\ X = <<>>
  /\ labels = <<>>
  /\ cluster_centers = <<>>
  /\ top_terms = <<>>
  /\ clusters = <<>>
  /\ matrix = <<>>

\* df = pd.DataFrame(matrix_json); X = tfidf.fit_transform(df['summary']).
\* An empty frame has no 'summary' column; an empty vocabulary is rejected.
Vectorize ==
  /\ pc = "m_start"
  /\ IF Len(matrix_json) = 0
     THEN /\ pc' = "raised"
          /\ error' = "KeyError"
          /\ UNCHANGED <<terms, X>>
     ELSE IF vocabulary(matrix_json) = <<>>
     THEN /\ pc' = "raised"
          /\ error' = "ValueError"
          /\ UNCHANGED <<terms, X>>
     ELSE /\ terms' = vocabulary(matrix_json)
          /\ X' \in tfidf_matrices(matrix_json, vocabulary(matrix_json))
          /\ pc' = "vectorized"
          /\ UNCHANGED error
  /\ UNCHANGED <<extract_vars, pipeline_vars, api_vars, matrix_json, n_clusters, labels, cluster_centers,
                 top_terms, clusters, matrix>>

\* Variant of effective_k passing the requested count through.
effective_k_requested(requested, size) == requested

\* n_clusters of KMeans(n_clusters=min(n_clusters, len(df)), ...)
effective_k(requested, size) == Min(requested, size)

\* The documents labelled c.
members(lab, c) == {d \in 1..Len(lab) : lab[d] = c}

\* The center of cluster c: the mean of its members, kept as the sum of
\* their rows and their number; a cluster without members sits on a row.
center_of(lab, c, row) ==
  IF members(lab, c) # {}
  THEN [sum |-> [t \in 1..Len(terms) |->
                   SumOver(members(lab, c), [d \in 1..Len(X) |-> X[d][t]])],
        count |-> Cardinality(members(lab, c))]
  ELSE [sum |-> X[row[c]], count |-> 1]

\* The label vectors KMeans(n_clusters=k).fit(X) can return: every document
\* gets a label below k, equal rows get the same label, and as many
\* clusters have members as there are distinct rows, up to k.
kmeans_labels(k) ==
  { lab \in [1..Len(X) -> 0..(k - 1)] :
      /\ \A a, b \in 1..Len(X) : X[a] = X[b] => lab[a] = lab[b]
      /\ Cardinality({lab[d] : d \in 1..Len(X)})
           = Min(k, Cardinality({X[d] : d \in 1..Len(X)})) }

\* kmeans = KMeans(...).fit(X); df['cluster'] = kmeans.labels_.
Fit ==
  /\ pc = "vectorized"
  /\ LET k == effective_k(n_clusters, Len(matrix_json))
     IN  \E lab \in kmeans_labels(k) :
           \E row \in [{c \in 0..(k - 1) : members(lab, c) = {}} -> 1..Len(X)] :
             /\ labels' = lab
             /\ cluster_centers' = [c \in 0..(k - 1) |-> center_of(lab, c, row)]
  /\ pc' = "fitted"
  /\ UNCHANGED <<extract_vars, pipeline_vars, api_vars, error, matrix_json, n_clusters, terms, X,
                 top_terms, clusters, matrix>>

\* The ascending orders of the indices S by weight w: a least index first,
\* then an ascending order of the others.
RECURSIVE ascending_orders(_, _)
ascending_orders(S, w) ==
  IF S = {} THEN {<<>>}
  ELSE UNION { {<<x>> \o p : p \in ascending_orders(S \ {x}, w)} :
                 x \in {y \in S : \A z \in S : w[y] <= w[z]} }

\* The orders center.argsort() can return: ascending weight, equal weights
\* in any order (the default sort kind is not stable).
argsort(center) == ascending_orders(1..Len(center.sum), center.sum)

\* order is one of the orders argsort can return for center.
is_argsort(order, center) ==
  \A a \in 1..(Len(order) - 1) : center.sum[order[a]] <= center.sum[order[a + 1]]

\* seq[-n:]
last_n(seq, n) == SubSeq(seq, Max(1, Len(seq) - n + 1), Len(seq))

\* seq[::-1]
reversed(seq) == [j \in 1..Len(seq) |-> seq[Len(seq) + 1 - j]]

\* center.argsort()[-5:][::-1]
top_indices(order) == reversed(last_n(order, TopN))

\* The loop over range(kmeans.n_clusters) filling top_terms.
Summarize ==
  /\ pc = "fitted"
  /\ \E order \in [DOMAIN cluster_centers ->
                     UNION {argsort(cluster_centers[d]) : d \in DOMAIN cluster_centers}] :
       /\ \A c \in DOMAIN cluster_centers : is_argsort(order[c], cluster_centers[c])
       /\ top_terms' = [c \in DOMAIN cluster_centers |->
                          LET idx == top_indices(order[c])
                          IN  [j \in 1..Len(idx) |-> terms[idx[j]]]]
  /\ pc' = "summarized"
  /\ UNCHANGED <<extract_vars, pipeline_vars, api_vars, error, matrix_json, n_clusters, terms, X, labels,
                 cluster_centers, clusters, matrix>>

\* Variant of filenames_of listing the latest document first.
RECURSIVE filenames_of_reversed(_, _, _)
filenames_of_reversed(corpus, lab, c) ==
  IF corpus = <<>> THEN <<>>
  ELSE filenames_of_reversed(Tail(corpus), Tail(lab), c)
         \o (IF Head(lab) = c THEN <<Head(corpus).filename>> ELSE <<>>)

\* The filenames of the documents labelled c, in frame order.
RECURSIVE filenames_of(_, _, _)
filenames_of(corpus, lab, c) ==
  IF corpus = <<>> THEN <<>>
  ELSE (IF Head(lab) = c THEN <<Head(corpus).filename>> ELSE <<>>)
         \o filenames_of(Tail(corpus), Tail(lab), c)

\* df.groupby('cluster')['filename'].apply(list).to_dict(): one entry per
\* label that occurs, from label c upwards, in ascending label order.
RECURSIVE groupby(_, _, _, _)
groupby(corpus, lab, c, k) ==
  IF c >= k THEN <<>>
  ELSE (IF members(lab, c) # {}
        THEN <<[cluster |-> c, filenames |-> filenames_of(corpus, lab, c)]>>
        ELSE <<>>)
         \o groupby(corpus, lab, c + 1, k)

\* One row of the frame with its cluster column.
with_cluster(record, label) ==
  [filename |-> record.filename, summary |-> record.summary, cluster |-> label]

\* Variant of to_records attaching the labels in reverse order.
to_records_reversed(corpus, lab) ==
  [d \in 1..Len(corpus) |-> with_cluster(corpus[d], lab[Len(corpus) + 1 - d])]

\* df.to_dict(orient='records') after df['cluster'] = kmeans.labels_
to_records(corpus, lab) ==
  [d \in 1..Len(corpus) |-> with_cluster(corpus[d], lab[d])]

\* clusters = df.groupby(...); return the result dictionary.
Aggregate ==
  /\ pc = "summarized"
  /\ clusters' = groupby(matrix_json, labels, 0,
                         effective_k(n_clusters, Len(matrix_json)))
  /\ matrix' = to_records(matrix_json, labels)
  /\ pc' = "returned"
  /\ UNCHANGED <<extract_vars, pipeline_vars, api_vars, error, matrix_json, n_clusters, terms, X, labels,
                 cluster_centers, top_terms>>

NextMeta ==
  \/ Vectorize
  \/ Fit
  \/ Summarize
  \/ Aggregate

SpecMeta == InitMeta /\ [][NextMeta]_vars

---------------------------------------------------------------------------
(* The extraction endpoints (backend/extract_api.py, backend/main.py).     *)

\* The temporary directories created by the requests of one run.
MaxTemp == 3

\* The names of the directories mkdtemp hands out, in order of creation.
DirNames == <<"1", "2", "3", "4", "5", "6", "7", "8", "9">>

\* tempfile.mkdtemp(): a directory that did not exist before.
mkdtemp(n) == <<"/", "t", DirNames[n]>>

\* directory / name
path_join(dir, name) == dir \o <<"/">> \o name

\* c.lower() for the letters of the file names.
lower_char(c) ==
  CASE c = "P" -> "p"
    [] c = "D" -> "d"
    [] c = "F" -> "f"
    [] c = "B" -> "b"
    [] OTHER -> c

\* s.lower()
lower(s) == [j \in 1..Len(s) |-> lower_char(s[j])]

\* s.endswith(suffix)
endswith(s, suffix) ==
  /\ Len(s) >= Len(suffix)
  /\ SubSeq(s, Len(s) - Len(suffix) + 1, Len(s)) = suffix

\* Path(path).stem: the name without its last suffix; a dot at the first
\* position starts no suffix.
path_stem(path) ==
  LET name == path_name(path)
      dots == {j \in 2..Len(name) : name[j] = "."}
  IN  IF dots = {} THEN name
      ELSE SubSeq(name, 1, (CHOOSE j \in dots : \A k \in dots : k <= j) - 1)

\* The file names of the uploads: "a.pdf", "b.PDF", "a.txt".
UploadNames ==
  { <<"a", ".", "p", "d", "f">>,
    <<"b", ".", "P", "D", "F">>,
    <<"a", ".", "t", "x", "t">> }

\* file.filename.lower().endswith('.pdf')
is_pdf(filename) == endswith(lower(filename), <<".", "p", "d", "f">>)

\* f"extract_{n}"
file_id_of(n) == make_id("extract", n)

\* The file_id values of the requests: those an upload can have returned
\* and one more.
RequestIds == { file_id_of(n) : n \in 1..(MaxTemp + 1) }

\* output_dir / f"extracted_{Path(file_path).stem}.xlsx"
output_path_of(dir, path) ==
  path_join(dir, <<"extracted_">> \o path_stem(path) \o <<".", "x", "l", "s", "x">>)

\* d[key] = value on a dictionary.
dict_set(d, key, value) == (key :> value) @@ d

\* The answer of an endpoint: the status code and the fields of the body
\* that the requests of the model read.
respond(endpoint, status, file_id, filename, processed, excel_file) ==
  [endpoint |-> endpoint, status |-> status, file_id |-> file_id,
   filename |-> filename, processed |-> processed, excel_file |-> excel_file]

\* The status a handler answers with when its try block raises
\* HTTPException(code): the handler's `except Exception` catches it, since
\* HTTPException is an Exception, and raises HTTPException(500) instead.
raised_status(code) == 500

\* The outcomes of extractor.extract_and_convert on an uploaded file: the
\* pipeline ends well, the parse call fails, an element fails, or the
\* workbook cannot be written.
Outcomes == {"ok", "parse", "element", "export"}

\* The result dictionary of extract_and_convert for an outcome.
pipeline_result(outcome, path) ==
  IF outcome = "ok"
  THEN success_result(EmptyData, path)
  ELSE failure_result(outcome)

\* Variant of register_output storing the path whatever the result.
register_output_always(outputs, file_id, path, res) ==
  dict_set(outputs, file_id, path)

\* if result["success"]: extraction_outputs[file_id] = str(output_path)
register_output(outputs, file_id, path, res) ==
  IF res.success THEN dict_set(outputs, file_id, path) ELSE outputs

InitApi ==
  /\ elements = <<>>
  /\ i = 0
  /\ extracted_data = EmptyData
  /\ pc = "serving"
  /\ error = "none"
  /\ PipelineIdle
  /\ MetaIdle
  /\ ApiIdle

\* The frame of every request: no pipeline or meta-study variable moves.
ApiFrame == UNCHANGED <<extract_vars, pc, error, pipeline_vars, meta_vars>>

\* Variant of next_file_id counting the entries of the output registry.
next_file_id_from_outputs(files, outputs) ==
  file_id_of(Cardinality(DOMAIN outputs) + 1)

\* file_id = f"extract_{len(extraction_files) + 1}"
next_file_id(files, outputs) ==
  file_id_of(Cardinality(DOMAIN files) + 1)

\* upload_for_extraction on a name that is not a PDF name: the handler
\* raises HTTPException(400) inside its try block.
UploadRejected ==
  /\ \E filename \in UploadNames :
       /\ ~is_pdf(filename)
       /\ response' = respond("upload", raised_status(400), <<>>, filename, FALSE, None)
  /\ UNCHANGED <<extraction_files, extraction_outputs, uploads, disk, tmp_count>>
  /\ ApiFrame

\* upload_for_extraction up to `await file.read()`: the temporary directory
\* exists, the file is open, and the handler is suspended.
UploadBegin ==
  /\ tmp_count < MaxTemp
  /\ \E filename \in UploadNames :
       /\ is_pdf(filename)
       /\ uploads' = Append(uploads,
                            [filename |-> filename,
                             file_path |-> path_join(mkdtemp(tmp_count + 1), filename)])
  /\ tmp_count' = tmp_count + 1
  /\ UNCHANGED <<extraction_files, extraction_outputs, disk, response>>
  /\ ApiFrame

\* upload_for_extraction after the await: the content is written and the
\* file is registered under the next id; reading or writing can fail.
UploadEnd ==
  /\ \E k \in 1..Len(uploads) : \E io_error \in BOOLEAN :
       LET upload == uploads[k]
           file_id == next_file_id(extraction_files, extraction_outputs)
       IN  /\ uploads' = SubSeq(uploads, 1, k - 1) \o SubSeq(uploads, k + 1, Len(uploads))
           /\ IF io_error
              THEN /\ response' = respond("upload", 500, <<>>, upload.filename, FALSE, None)
                   /\ UNCHANGED extraction_files
              ELSE /\ extraction_files' = dict_set(extraction_files, file_id, upload.file_path)
                   /\ response' = respond("upload", 200, file_id, upload.filename, FALSE, None)
  /\ UNCHANGED <<extraction_outputs, disk, tmp_count>>
  /\ ApiFrame

\* process_extraction: the whole handler; the pipeline runs without await.
\* A workbook that could not be written may leave an incomplete file.
ProcessExtraction ==
  /\ \E file_id \in RequestIds :
       IF file_id \notin DOMAIN extraction_files
       THEN /\ response' = respond("process", raised_status(404), file_id, <<>>, FALSE, None)
            /\ UNCHANGED <<extraction_outputs, disk, tmp_count>>
       ELSE /\ tmp_count < MaxTemp
            /\ tmp_count' = tmp_count + 1
            /\ \E outcome \in Outcomes : \E leftover \in BOOLEAN :
                 LET file_path_ == extraction_files[file_id]
                     output_path == output_path_of(mkdtemp(tmp_count + 1), file_path_)
                     res == pipeline_result(outcome, output_path)
                 IN  /\ extraction_outputs' =
                          register_output(extraction_outputs, file_id, output_path, res)
                     /\ disk' =
                          IF outcome = "ok"
                          THEN dict_set(disk, output_path,
                                        [state |-> "complete", file_id |-> file_id])
                          ELSE IF outcome = "export" /\ leftover
                          THEN dict_set(disk, output_path,
                                        [state |-> "incomplete", file_id |-> file_id])
                          ELSE disk
                     /\ response' =
                          IF res.success
                          THEN respond("process", 200, file_id, <<>>, TRUE, Some(output_path))
                          ELSE respond("process", raised_status(500), file_id, <<>>, FALSE, None)
  /\ UNCHANGED <<extraction_files, uploads>>
  /\ ApiFrame

\* download_extracted_excel
DownloadExtractedExcel ==
  /\ \E file_id \in RequestIds :
       response' =
         IF file_id \notin DOMAIN extraction_outputs
         THEN respond("download", raised_status(404), file_id, <<>>, FALSE, None)
         ELSE IF extraction_outputs[file_id] \notin DOMAIN disk
         THEN respond("download", raised_status(404), file_id, <<>>, FALSE, None)
         ELSE respond("download", 200, file_id, <<>>, TRUE,
                      Some(extraction_outputs[file_id]))
  /\ UNCHANGED <<extraction_files, extraction_outputs, uploads, disk, tmp_count>>
  /\ ApiFrame

\* get_extraction_status
GetExtractionStatus ==
  /\ \E file_id \in RequestIds :
       response' =
         IF file_id \notin DOMAIN extraction_files
         THEN respond("status", raised_status(404), file_id, <<>>, FALSE, None)
         ELSE LET has_output == file_id \in DOMAIN extraction_outputs
              IN  respond("status", 200, file_id, <<>>, has_output, None)
  /\ UNCHANGED <<extraction_files, extraction_outputs, uploads, disk, tmp_count>>
  /\ ApiFrame

NextApi ==
  \/ UploadRejected
  \/ UploadBegin
  \/ UploadEnd
  \/ ProcessExtraction
  \/ DownloadExtractedExcel
  \/ GetExtractionStatus

SpecApi == InitApi /\ [][NextApi]_vars

---------------------------------------------------------------------------
(* Properties of the extraction pass.                                      *)

tables == extracted_data.tables

text_sections == extracted_data.text_sections

\* The element at 0-based source position n.
source(n) == elements[n + 1]

IsBlank(s) == \A j \in 1..Len(s) : s[j] \in Whitespace

\* s without its leading and trailing whitespace, by positions.
Trim(s) ==
  IF IsBlank(s) THEN <<>>
  ELSE LET first == CHOOSE j \in 1..Len(s) :
                      s[j] \notin Whitespace /\ \A k \in 1..(j - 1) : s[k] \in Whitespace
           last == CHOOSE j \in 1..Len(s) :
                      s[j] \notin Whitespace /\ \A k \in (j + 1)..Len(s) : s[k] \in Whitespace
       IN  SubSeq(s, first, last)

NotEmpty(s) == s # <<>>

NotBlank(s) == ~IsBlank(s)

\* The rows of a table text as section 4.2 describes them.
RefCells(line) ==
  LET pieces == split(line, "|")
  IN  SelectSeq([j \in 1..Len(pieces) |-> Trim(pieces[j])], NotEmpty)

RefRows(text) ==
  LET lines == SelectSeq(split(text, "\n"), NotBlank)
  IN  SelectSeq([j \in 1..Len(lines) |-> RefCells(lines[j])], NotEmpty)

\* "a|b\nc|d"
ExampleTable == <<"a", "|", "b", "\n", "c", "|", "d">>

\* C1: every table record and text section carries the id built from the
\* 0-based position of its source element in the input sequence, every
\* processed element that yields a record has one under that id, and the
\* ids increase strictly along both output lists.
C1_IdsAreSourcePositions ==
  /\ \A k \in 1..Len(tables) :
        LET r == tables[k]
        IN  /\ r.id[1] = "table"
            /\ r.id[2] \in 0..(i - 1)
            /\ source(r.id[2]).tag = "Table"
            /\ r.data = RefRows(source(r.id[2]).text)
            /\ r.page = page_of(source(r.id[2]))
  /\ \A k \in 1..Len(text_sections) :
        LET r == text_sections[k]
        IN  /\ r.id[1] = "text"
            /\ r.id[2] \in 0..(i - 1)
            /\ r.type = source(r.id[2]).tag
            /\ r.content = _preprocess_text(source(r.id[2]).text)
            /\ r.page = page_of(source(r.id[2]))
  /\ \A n \in 0..(i - 1) :
        /\ (source(n).tag = "Table" /\ RefRows(source(n).text) # <<>>)
             => \E k \in 1..Len(tables) : tables[k].id = <<"table", n>>
        /\ (source(n).tag \in {"Text", "Title", "ListItem"} /\ ~IsBlank(source(n).text))
             => \E k \in 1..Len(text_sections) : text_sections[k].id = <<"text", n>>
  /\ \A k \in 1..(Len(tables) - 1) : tables[k].id[2] < tables[k + 1].id[2]
  /\ \A k \in 1..(Len(text_sections) - 1) :
        text_sections[k].id[2] < text_sections[k + 1].id[2]

\* A text section from source position 0 and a table from source position
\* 1: the table is first in its list and still has the id table_1.
C1_Witness ==
  /\ pc = "returned"
  /\ Len(tables) = 1 /\ tables[1].id = <<"table", 1>>
  /\ Len(text_sections) = 1 /\ text_sections[1].id = <<"text", 0>>

\* C2: for every table text, _extract_table_data returns exactly the rows
\* of section 4.2 (lines, blank lines discarded, split on the pipe, cells
\* trimmed, empty cells dropped, lines without cells dropped), returns None
\* when no row survives, maps "a|b\nc|d" to [["a","b"],["c","d"]], and every
\* table record has a non-empty list of non-empty rows of non-empty cells.
C2_TableReconstruction ==
  /\ \A n \in 1..Len(elements) :
        elements[n].tag = "Table" =>
          LET ref == RefRows(elements[n].text)
          IN  _extract_table_data(elements[n].text)
                = IF ref = <<>> THEN None ELSE Some(ref)
  /\ _extract_table_data(ExampleTable)
        = Some(<< << <<"a">>, <<"b">> >>, << <<"c">>, <<"d">> >> >>)
  /\ _extract_table_data(<<"\n", " ", "\n">>) = None
  /\ _extract_table_data(<<" ", " ", "|", " ", " ", "|", " ", " ">>) = None
  /\ \A k \in 1..Len(tables) :
        /\ tables[k].data # <<>>
        /\ \A r \in 1..Len(tables[k].data) :
              /\ tables[k].data[r] # <<>>
              /\ \A c \in 1..Len(tables[k].data[r]) : tables[k].data[r][c] # <<>>

\* A returned document whose table has two rows, the first of two cells,
\* from a text with a line break and a pipe.
C2_Witness ==
  /\ pc = "returned"
  /\ Len(tables) = 1
  /\ Len(tables[1].data) = 2
  /\ Len(tables[1].data[1]) = 2

\* C3: a failure while processing one element is contained: the pass only
\* ever raises because the upstream parse call failed.
C3_ElementFailuresContained ==
  pc = "raised" => error = "parse"

\* C4: every text section has a type among Text, Title and ListItem, equal
\* to the tag of its source element, and an element with any other tag than
\* Table, Text, Title, ListItem yields no record and no error.
C4_TextTypesClosed ==
  /\ \A k \in 1..Len(text_sections) :
        /\ text_sections[k].type \in {"Text", "Title", "ListItem"}
        /\ text_sections[k].type = source(text_sections[k].id[2]).tag
  /\ \A n \in 0..(i - 1) :
        source(n).tag \notin {"Table", "Text", "Title", "ListItem"} =>
          /\ \A k \in 1..Len(tables) : tables[k].id[2] # n
          /\ \A k \in 1..Len(text_sections) : text_sections[k].id[2] # n
  /\ (pc = "raised" /\ error = "element") =>
        source(i).tag \in {"Table", "Text", "Title", "ListItem"}

\* C12: when the upstream parse call fails, extract_from_pdf raises with no
\* table or text section built, no sheet is ever written, and the pipeline
\* ends with a result whose success is False and whose extracted_data and
\* excel_file are both None.
C12_ParseFailureFatal ==
  error = "parse" =>
    /\ pc \in {"raised", "done"}
    /\ extracted_data = EmptyData
    /\ sheets = <<>>
    /\ pc = "raised" => result = None
    /\ pc = "done" =>
          /\ ~result.is_none
          /\ result.value.success = FALSE
          /\ result.value.extracted_data = None
          /\ result.value.excel_file = None

\* The pipeline has ended after a parse failure on a file with two elements.
C12_Witness ==
  /\ pc = "done"
  /\ error = "parse"
  /\ Len(elements) = 2
  /\ result.value.success = FALSE

\* C13: a workbook written without error has exactly len(tables) + 1 + 1
\* sheets: for every k the k-th sheet is named Table_k and holds the k-th
\* table record whatever its id, then comes the text sections sheet, then
\* the metadata sheet, also when there is no text section.
C13_SheetLayout ==
  pc \in {"converted", "done"} /\ error = "none" =>
    /\ Len(sheets) = Len(tables) + 1 + 1
    /\ \A k \in 1..Len(tables) :
          /\ sheets[k].name = <<"Table", k>>
          /\ sheets[k].columns = tables[k].data[1]
    /\ sheets[Len(tables) + 1].name = <<"Text_Sections">>
    /\ sheets[Len(tables) + 2].name = <<"Metadata">>

\* s is free of leading, trailing and doubled whitespace.
IsTidy(s) ==
  /\ s # <<>> => (s[1] \notin Whitespace /\ s[Len(s)] \notin Whitespace)
  /\ \A j \in 1..(Len(s) - 1) : ~(s[j] \in Whitespace /\ s[j + 1] \in Whitespace)

\* t, which starts and ends with a word, with every whitespace run replaced
\* by one space.
RECURSIVE Squeeze(_)
Squeeze(t) ==
  IF \A j \in 1..Len(t) : t[j] \notin Whitespace THEN t
  ELSE LET gap == CHOOSE j \in 1..Len(t) :
                    t[j] \in Whitespace /\ \A k \in 1..(j - 1) : t[k] \notin Whitespace
           next == CHOOSE j \in (gap + 1)..Len(t) :
                    t[j] \notin Whitespace /\ \A k \in gap..(j - 1) : t[k] \in Whitespace
       IN  SubSeq(t, 1, gap - 1) \o <<" ">> \o Squeeze(SubSeq(t, next, Len(t)))

\* The normalized form of section 4.3: trimmed, runs collapsed to a space.
RefNormalize(s) == Squeeze(Trim(s))

\* C14: every text section comes from an element whose normalized text is
\* not empty, its content is that normalized text (not empty, no leading or
\* trailing whitespace, no two consecutive whitespace characters), and a
\* processed element with a whitespace-only text has no record.
C14_TextSectionsNormalized ==
  /\ \A k \in 1..Len(text_sections) :
        LET r == text_sections[k]
        IN  /\ r.content # <<>>
            /\ IsTidy(r.content)
            /\ r.content = RefNormalize(source(r.id[2]).text)
  /\ \A n \in 0..(i - 1) :
        IsBlank(source(n).text) =>
          /\ \A k \in 1..Len(text_sections) : text_sections[k].id[2] # n
          /\ \A k \in 1..Len(tables) : tables[k].id[2] # n

\* A blank Text element at position 0 left no record and the element after
\* it has its text section.
C14_Witness ==
  /\ pc = "returned"
  /\ Len(elements) = 2
  /\ elements[1].tag = "Text" /\ IsBlank(elements[1].text)
  /\ Len(text_sections) = 1
  /\ text_sections[1].id = <<"text", 1>>

\* The part of a path after its last slash.
RefName(path) ==
  LET slashes == {j \in 1..Len(path) : path[j] = "/"}
  IN  IF slashes = {} THEN path
      ELSE SubSeq(path, (CHOOSE j \in slashes : \A k \in slashes : k <= j) + 1, Len(path))

\* The element at 0-based position n has a record in one of the lists.
HasRecord(n) ==
  \/ \E k \in 1..Len(tables) : tables[k].id = <<"table", n>>
  \/ \E k \in 1..Len(text_sections) : text_sections[k].id = <<"text", n>>

\* The document exists: the parse call has returned.
Parsed == pc # "start" /\ error # "parse"

\* C15: metadata.total_elements is the number of input elements and
\* metadata.filename the name of the input file; the two lists together
\* never hold more records than that, and once the pass has returned they
\* hold exactly that many only if every element has one of the tags Table,
\* Text, Title, ListItem and a record.
C15_MetadataCounts ==
  Parsed =>
    /\ extracted_data.metadata.total_elements = Len(elements)
    /\ extracted_data.metadata.filename = RefName(file_path)
    /\ Len(tables) + Len(text_sections) <= extracted_data.metadata.total_elements
    /\ (pc = "returned"
          /\ Len(tables) + Len(text_sections) = extracted_data.metadata.total_elements)
         => \A n \in 0..(Len(elements) - 1) :
              /\ source(n).tag \in {"Table", "Text", "Title", "ListItem"}
              /\ HasRecord(n)

\* C16: for every text s, _preprocess_text(_preprocess_text(s)) equals
\* _preprocess_text(s), and _preprocess_text(s) is s without leading and
\* trailing whitespace and with every whitespace run replaced by one space:
\* it has no two consecutive whitespace characters and no whitespace
\* character other than the space.
C16_NormalizeIdempotent ==
  /\ \A n \in 1..Len(elements) :
        LET s == elements[n].text
            r == _preprocess_text(s)
        IN  /\ _preprocess_text(r) = r
            /\ IsTidy(r)
            /\ \A j \in 1..Len(r) : r[j] \in Whitespace => r[j] = " "
            /\ r = RefNormalize(s)
            /\ (r = <<>>) <=> IsBlank(s)
  /\ _preprocess_text(<<"\t", "a", "\t", "\n", "b", " ">>) = <<"a", " ", "b">>
  /\ _preprocess_text(<<" ", "\n", "\t">>) = <<>>

\* The text "a \na" of an element was normalized to "a a" in its section.
C16_Witness ==
  /\ pc = "returned"
  /\ Len(elements) = 1
  /\ elements[1].text = <<"a", " ", "\n", "a">>
  /\ Len(text_sections) = 1
  /\ text_sections[1].content = <<"a", " ", "a">>

\* C17: in the text sections sheet of a workbook written without error,
\* every row carries the id, type and page of its text section unchanged;
\* a content of more than 500 characters is written as its first 500
\* characters followed by "...", a content of at most 500 characters is
\* written unchanged.
C17_ContentTruncation ==
  (pc \in {"converted", "done"} /\ error = "none" /\ text_sections # <<>>) =>
    LET sheet == sheets[Len(sheets) - 1]
    IN  /\ sheet.name = <<"Text_Sections">>
        /\ Len(sheet.rows) = Len(text_sections)
        /\ \A j \in 1..Len(text_sections) :
              LET section == text_sections[j]
                  row == sheet.rows[j]
              IN  /\ row.ID = section.id
                  /\ row.Type = section.type
                  /\ row.Page = section.page
                  /\ Len(section.content) > 500 =>
                        /\ Len(row.Content) = 500 + 3
                        /\ SubSeq(row.Content, 1, 500) = SubSeq(section.content, 1, 500)
                        /\ SubSeq(row.Content, 500 + 1, 500 + 3) = <<".", ".", ".">>
                  /\ Len(section.content) <= 500 => row.Content = section.content

\* A workbook was written for a text section of more than 500 characters.
C17_Witness ==
  /\ pc = "converted"
  /\ Len(text_sections) = 1
  /\ Len(text_sections[1].content) > 500
  /\ Len(sheets[1].rows[1].Content) = 500 + 3

\* C21: the rows of every table record form a grid, each row having as
\* many cells as the first row, and no export fails on the frame of a table
\* record: every table built by the pass is accepted by the exporter.
C21_TablesAreGrids ==
  /\ \A k \in 1..Len(tables) :
        \A r \in 1..Len(tables[k].data) :
          Len(tables[k].data[r]) = Len(tables[k].data[1])
  /\ ~tables_raise(tables)

---------------------------------------------------------------------------
(* Properties of the meta-study.                                           *)

\* The meta-study has computed the top terms.
Summarized == pc \in {"summarized", "returned"}

\* The vocabulary index of a term.
term_index(w) == CHOOSE t \in 1..Len(terms) : terms[t] = w

\* The weight of term w in the center of cluster c, times the member count.
center_weight(c, w) == cluster_centers[c].sum[term_index(w)]

\* C5: top_terms[c] has at most 5 entries, each of them a token of the
\* summary of some document assigned to cluster c.
C5_TopTermsFromCluster ==
  Summarized =>
    \A c \in DOMAIN top_terms :
      /\ Len(top_terms[c]) <= 5
      /\ \A j \in 1..Len(top_terms[c]) :
           \E d \in members(labels, c) :
             \E n \in 1..Len(tokens(matrix_json[d].summary)) :
               tokens(matrix_json[d].summary)[n] = top_terms[c][j]

\* C6: top_terms[c] lists min(5, vocabulary size) distinct terms of highest
\* center weight in descending weight order, and of two terms of equal
\* weight the one with the smaller vocabulary index comes first or is the
\* one selected.
C6_TopTermsRanked ==
  Summarized =>
    \A c \in DOMAIN top_terms :
      LET top == top_terms[c]
          chosen == {top[j] : j \in 1..Len(top)}
          others == {terms[t] : t \in 1..Len(terms)} \ chosen
      IN  /\ Len(top) = Min(5, Len(terms))
          /\ Cardinality(chosen) = Len(top)
          /\ \A j \in 1..(Len(top) - 1) :
               \/ center_weight(c, top[j]) > center_weight(c, top[j + 1])
               \/ /\ center_weight(c, top[j]) = center_weight(c, top[j + 1])
                  /\ term_index(top[j]) < term_index(top[j + 1])
          /\ \A w \in chosen : \A o \in others :
               \/ center_weight(c, w) > center_weight(c, o)
               \/ /\ center_weight(c, w) = center_weight(c, o)
                  /\ term_index(w) < term_index(o)

C8_EmptyCorpusSkipped ==
  Len(matrix_json) = 0 =>
    /\ pc # "raised"
    /\ pc = "returned" => (clusters = <<>> /\ top_terms = <<>>)

\* The positions of the documents labelled c, in ascending order.
RECURSIVE positions_of(_, _)
positions_of(c, from) ==
  IF from > Len(labels) THEN <<>>
  ELSE (IF labels[from] = c THEN <<from>> ELSE <<>>) \o positions_of(c, from + 1)

\* C9: the groups of the returned clusters mapping partition the records:
\* the group of each record's label lists its filename once per record and
\* nothing else, no record is left out, the groups come in ascending
\* cluster id, and the filenames of a group are in corpus order.
C9_ClustersPartition ==
  pc = "returned" =>
    /\ \A j \in 1..(Len(clusters) - 1) : clusters[j].cluster < clusters[j + 1].cluster
    /\ \A d \in 1..Len(matrix_json) :
         \E j \in 1..Len(clusters) : clusters[j].cluster = labels[d]
    /\ \A j \in 1..Len(clusters) :
         LET pos == positions_of(clusters[j].cluster, 1)
         IN  /\ Len(clusters[j].filenames) = Len(pos)
             /\ \A n \in 1..Len(pos) :
                  clusters[j].filenames[n] = matrix_json[pos[n]].filename

\* Two documents with different filenames in one cluster, the second in
\* corpus order being the first alphabetically.
C9_Witness ==
  /\ pc = "returned"
  /\ Len(matrix_json) = 2
  /\ matrix_json[1].filename = "r2"
  /\ matrix_json[2].filename = "r1"
  /\ labels[1] = labels[2]
  /\ clusters[1].filenames = <<"r2", "r1">>

\* C10: the clusters mapping has exactly the keys 0..k-1, the same keys as
\* top_terms, each with a non-empty group, for every non-empty corpus.
C10_ClusterKeysContiguous ==
  pc = "returned" =>
    LET k == Min(n_clusters, Len(matrix_json))
        keys == {clusters[j].cluster : j \in 1..Len(clusters)}
    IN  /\ keys = 0..(k - 1)
        /\ keys = DOMAIN top_terms
        /\ Len(clusters) = k
        /\ \A j \in 1..Len(clusters) : clusters[j].filenames # <<>>

\* The filenames of the matrix records carrying cluster c, in matrix order.
RECURSIVE matrix_group(_, _)
matrix_group(records, c) ==
  IF records = <<>> THEN <<>>
  ELSE (IF Head(records).cluster = c THEN <<Head(records).filename>> ELSE <<>>)
         \o matrix_group(Tail(records), c)

\* The filename is one of those listed in the group.
Listed(filename, group) == \E n \in 1..Len(group) : group[n] = filename

\* The matrix has one record per input record, in input order, equal to it
\* but for the added cluster, and every cluster is a key of clusters.
MatrixFrame ==
  /\ Len(matrix) = Len(matrix_json)
  /\ \A d \in 1..Len(matrix) :
        /\ DOMAIN matrix[d] = DOMAIN matrix_json[d] \cup {"cluster"}
        /\ matrix[d].filename = matrix_json[d].filename
        /\ matrix[d].summary = matrix_json[d].summary
        /\ \E j \in 1..Len(clusters) : clusters[j].cluster = matrix[d].cluster

\* C18 (as stated): the returned matrix has one record per input record in
\* input order, unchanged but for its cluster, and the record at position d
\* has cluster c if and only if its filename is listed under clusters[c].
C18_MatrixAgreesWithClusters ==
  pc = "returned" =>
    /\ MatrixFrame
    /\ \A d \in 1..Len(matrix) : \A j \in 1..Len(clusters) :
          (matrix[d].cluster = clusters[j].cluster)
            <=> Listed(matrix[d].filename, clusters[j].filenames)

\* C18 (amended): the returned matrix has one record per input record in
\* input order, unchanged but for its cluster; clusters[c] lists the
\* filenames of exactly the records whose cluster is c, once per record, so
\* a record with cluster c has its filename under clusters[c], and a record
\* whose filename is under clusters[c] has cluster c unless another record
\* has the same filename.
C18_MatrixCarriesLabels ==
  pc = "returned" =>
    /\ MatrixFrame
    /\ \A j \in 1..Len(clusters) :
          clusters[j].filenames = matrix_group(matrix, clusters[j].cluster)
    /\ \A d \in 1..Len(matrix) : \A j \in 1..Len(clusters) :
          /\ matrix[d].cluster = clusters[j].cluster
                => Listed(matrix[d].filename, clusters[j].filenames)
          /\ (Listed(matrix[d].filename, clusters[j].filenames)
                /\ \A e \in 1..Len(matrix) :
                      matrix[e].filename = matrix[d].filename => e = d)
                => matrix[d].cluster = clusters[j].cluster

\* Two records with the same filename were put in different clusters.
C18_Witness ==
  /\ pc = "returned"
  /\ Len(matrix) = 2
  /\ matrix[1].filename = matrix[2].filename
  /\ matrix[1].cluster # matrix[2].cluster
  /\ Len(clusters) = 2

---------------------------------------------------------------------------
(* Properties of the extraction endpoints.                                 *)

\* Some process request for file_id ran extraction and wrote its workbook
\* without error, and the registered output is that workbook.
Written(file_id) ==
  /\ file_id \in DOMAIN extraction_outputs
  /\ extraction_outputs[file_id] \in DOMAIN disk
  /\ disk[extraction_outputs[file_id]] = [state |-> "complete", file_id |-> file_id]

\* What the registries and the last answer expose as processed was written.
NothingExposedUnwritten ==
  /\ \A file_id \in DOMAIN extraction_outputs : Written(file_id)
  /\ (response.endpoint \in {"status", "download"} /\ response.processed)
       => Written(response.file_id)
  /\ response.endpoint = "process" =>
       IF response.status = 200
       THEN /\ Written(response.file_id)
            /\ response.excel_file = Some(extraction_outputs[response.file_id])
       ELSE response.excel_file = None

\* A step that leaves a failed process answer leaves the output registry.
FailedProcessKeepsOutputs ==
  (response'.endpoint = "process" /\ response'.status # 200)
    => extraction_outputs' = extraction_outputs

\* C11: after any sequence of upload, process, status and download requests
\* a file_id is registered, reported processed or served for download only
\* if a process request for it completed extraction and workbook writing
\* without error; a process request that fails leaves the output registry
\* unchanged and answers without an excel_file path.
C11_FailureNeverSuccess ==
  [](NothingExposedUnwritten) /\ [][FailedProcessKeepsOutputs]_vars

\* A process request failed on an uploaded file while writing the workbook,
\* leaving an incomplete file that no registry entry points to.
C11_Witness ==
  /\ response.endpoint = "process"
  /\ response.status = 500
  /\ response.file_id \in DOMAIN extraction_files
  /\ response.file_id \notin DOMAIN extraction_outputs
  /\ \E path \in DOMAIN disk :
       disk[path] = [state |-> "incomplete", file_id |-> response.file_id]

\* The request answered last named a file_id missing from the registry its
\* endpoint looks in, and a rejected upload carried a name that is no PDF.
UnknownFileId ==
  \/ /\ response.endpoint \in {"process", "status"}
     /\ response.file_id \notin DOMAIN extraction_files
  \/ /\ response.endpoint = "download"
     /\ response.file_id \notin DOMAIN extraction_outputs

NotPdfUpload == response.endpoint = "upload" /\ ~is_pdf(response.filename)

\* C20: a process, status or download request naming a file_id absent from
\* the registry it looks in is answered with status 404, an upload of a
\* name that does not end in .pdf with status 400, and the step answering
\* so leaves both registries unchanged.
C20_ClientErrorStatus ==
  /\ [](UnknownFileId => response.status = 404)
  /\ [](NotPdfUpload => response.status = 400)
  /\ [][(UnknownFileId' \/ NotPdfUpload')
          => /\ extraction_files' = extraction_files
             /\ extraction_outputs' = extraction_outputs]_vars

\* The step registers one upload: a new key, the answer carrying it.
IssuesFileId ==
  /\ extraction_files' # extraction_files
  /\ response'.endpoint = "upload"
  /\ response'.status = 200

\* Every entry of the upload registry is still there, unchanged.
UploadEntriesKept ==
  \A file_id \in DOMAIN extraction_files :
    /\ file_id \in DOMAIN extraction_files'
    /\ extraction_files'[file_id] = extraction_files[file_id]

\* Every key of the output registry is still there.
OutputKeysKept ==
  \A file_id \in DOMAIN extraction_outputs : file_id \in DOMAIN extraction_outputs'

\* The file_id answered by the step was issued to no upload before, and the
\* step adds exactly that key.
FreshFileId ==
  /\ response'.file_id \notin DOMAIN extraction_files
  /\ DOMAIN extraction_files' = DOMAIN extraction_files \cup {response'.file_id}

\* C22 (as stated): whatever the interleaving of the suspended uploads,
\* every successful upload is answered with a file_id issued to no earlier
\* upload, no entry of either registry is ever overwritten or lost, and the
\* keys of the output registry are among those of the upload registry.
C22_RegistriesNeverOverwritten ==
  /\ [](DOMAIN extraction_outputs \subseteq DOMAIN extraction_files)
  /\ [][IssuesFileId => FreshFileId]_vars
  /\ [][UploadEntriesKept]_vars
  /\ [][\A file_id \in DOMAIN extraction_outputs :
          /\ file_id \in DOMAIN extraction_outputs'
          /\ extraction_outputs'[file_id] = extraction_outputs[file_id]]_vars

\* C22 (amended): whatever the interleaving of the suspended uploads, every
\* successful upload is answered with a file_id issued to no earlier upload,
\* no entry of the upload registry is ever overwritten or lost, no key of
\* the output registry is ever lost, an output entry changes only when a
\* process request for its file_id succeeds and then holds the path that
\* request answered, and the keys of the output registry are among those of
\* the upload registry.
C22_DistinctFileIds ==
  /\ [](DOMAIN extraction_outputs \subseteq DOMAIN extraction_files)
  /\ [][IssuesFileId => FreshFileId]_vars
  /\ [][UploadEntriesKept]_vars
  /\ [][OutputKeysKept]_vars
  /\ [][\A file_id \in DOMAIN extraction_outputs' :
          (file_id \notin DOMAIN extraction_outputs
             \/ extraction_outputs'[file_id] # extraction_outputs[file_id])
            => /\ response'.endpoint = "process"
               /\ response'.status = 200
               /\ response'.file_id = file_id
               /\ response'.excel_file = Some(extraction_outputs'[file_id])]_vars

\* Two uploads were suspended together and ended in the other order: the
\* one that began second holds the id extract_1, the first one extract_2.
C22_Witness ==
  /\ DOMAIN extraction_files = {file_id_of(1), file_id_of(2)}
  /\ SubSeq(extraction_files[file_id_of(1)], 1, 3) = mkdtemp(2)
  /\ SubSeq(extraction_files[file_id_of(2)], 1, 3) = mkdtemp(1)
  /\ uploads = <<>>

====
